---- MODULE Spec2Model ----
(***************************************************************************)
(* callback_logger_handler of rust-fmi: the variadic FMI 2.0 logger        *)
(* callback that measures a printf-style message with vsnprintf, allocates *)
(* a buffer, renders with vsprintf, forwards to callback_log and frees.    *)
(*                                                                         *)
(* The repository holds two versions of the function:                      *)
(*   Src    = src/src/logger.c           one va_start, one va_end          *)
(*   FmiSys = src/fmi-sys/src/fmi2/logger.c  a va_start/va_end pair around *)
(*                                       each formatting pass              *)
(* A build links one of them; the model picks the version in Init and runs *)
(* NumThreads concurrent callers over one heap.                            *)
(***************************************************************************)
EXTENDS Integers, Sequences, FiniteSets, TLC

\* ------------------------------------------------------------------ bounds
NumThreads == 2
HeapSize == 4

Threads == 1..NumThreads
Addrs == 1..HeapSize

\* The null pointer: what malloc returns on failure and what if(buffer) tests.
NULL == 0

\* ------------------------------------------------------------ the versions
Src == "src/logger.c"
FmiSys == "fmi-sys/src/fmi2/logger.c"
Variants == {Src, FmiSys}

\* ---------------------------------------------------------------- characters
NUL == "\\0"
Uninit == "?"
DigitChars == <<"0", "1", "2", "3", "4", "5", "6", "7", "8", "9">>

\* ----------------------------------------------------- variadic arguments
IntArg(n) == [k |-> "d", i |-> n, s |-> <<>>]
StrArg(str) == [k |-> "s", i |-> 0, s |-> str]

\* The borrowed values of a call: environment, instance name, status, category.
Context1 ==
    [componentEnvironment |-> "env1", instanceName |-> "m1",
     status |-> 0, category |-> "logAll"]

Context2 ==
    [componentEnvironment |-> "env2", instanceName |-> "m2",
     status |-> 3, category |-> "logStatusError"]

NoContext ==
    [componentEnvironment |-> "none", instanceName |-> "none",
     status |-> 0, category |-> "none"]

\* The calls the simulation code makes: the borrowed values, a format and
\* the arguments after it.
Invocations ==
    { [ctx |-> Context1, message |-> <<"%", "s">>, va |-> <<StrArg(<<>>)>>],
      [ctx |-> Context1, message |-> <<"%", "d">>, va |-> <<IntArg(7)>>],
      [ctx |-> Context2, message |-> <<"%", "d">>, va |-> <<IntArg(42)>>],
      [ctx |-> Context2, message |-> <<"k">>, va |-> <<>>] }

\* ------------------------------------------------ the formatting primitive
RECURSIVE Decimal(_)
Decimal(n) ==
    IF n < 0 THEN <<"-">> \o Decimal(0 - n)
    ELSE IF n < 10 THEN <<DigitChars[n + 1]>>
    ELSE Decimal(n \div 10) \o <<DigitChars[(n % 10) + 1]>>

\* The conventional expansion of format f with arguments a.
RECURSIVE Expand(_, _)
Expand(f, a) ==
    IF f = <<>> THEN <<>>
    ELSE IF Head(f) = "%" /\ Len(f) >= 2
    THEN LET c == f[2]
             rest == SubSeq(f, 3, Len(f))
         IN  IF c = "d" THEN Decimal(Head(a).i) \o Expand(rest, Tail(a))
             ELSE IF c = "s" THEN Head(a).s \o Expand(rest, Tail(a))
             ELSE <<c>> \o Expand(rest, a)
    ELSE <<Head(f)>> \o Expand(Tail(f), a)

\* The number of arguments a pass over f fetches with va_arg.
RECURSIVE NumConv(_)
NumConv(f) ==
    IF f = <<>> THEN 0
    ELSE IF Head(f) = "%" /\ Len(f) >= 2
    THEN (IF f[2] \in {"d", "s"} THEN 1 ELSE 0) + NumConv(SubSeq(f, 3, Len(f)))
    ELSE NumConv(Tail(f))

\* --------------------------------------------------- the argument cursor
\* va_list args: open between va_start and va_end; pos is "start" after
\* va_start and "consumed" once a callee has fetched arguments through it,
\* which leaves its value indeterminate in the caller. starts and ends count
\* the va_start and va_end the call has executed on it.
ClosedCursor == [open |-> FALSE, pos |-> "none", starts |-> 0, ends |-> 0]

va_start(c) == [open |-> TRUE, pos |-> "start", starts |-> c.starts + 1, ends |-> c.ends]

\* A va_end that is left out.
va_end_Skipped(c) == c

va_end(c) == [open |-> FALSE, pos |-> "none", starts |-> c.starts, ends |-> c.ends + 1]

\* The cursor after a formatting pass over f has used it.
Traversed(c, f) ==
    IF NumConv(f) > 0 THEN [c EXCEPT !.pos = "consumed"] ELSE c

\* What a pass through an indeterminate cursor may fetch for format f: any
\* values of the types f asks for.
Indeterminate(f) == { inv.va : inv \in { i \in Invocations : i.message = f } }

\* The outcomes of a formatting pass over f through cursor c whose call was
\* given arguments a: the expansion, or, through an indeterminate cursor,
\* the expansion of whatever is fetched, or a crash.
PassOutcomes(f, a, c) ==
    IF c.pos = "consumed"
    THEN { [crash |-> FALSE, text |-> Expand(f, g)] : g \in Indeterminate(f) }
         \cup { [crash |-> TRUE, text |-> <<>>] }
    ELSE { [crash |-> FALSE, text |-> Expand(f, a)] }

\* vsnprintf(NULL, 0, ...) returns the length of the expansion, or a negative
\* value when it fails.
MeasureResults(f, a, c) ==
    { Len(o.text) : o \in { x \in PassOutcomes(f, a, c) : ~x.crash } } \cup {0 - 1}

\* -------------------------------------------------------------------- state
VARIABLES
    variant,      \* the version of logger.c that is linked
    pc,           \* pc[t]: the phase thread t executes next
    ctx,          \* ctx[t]: the four borrowed parameters of t's call
    message,      \* message[t]: the format parameter
    va,           \* va[t]: the variadic arguments of the call
    args,         \* args[t]: the local va_list
    buffer_size,  \* buffer_size[t]: the local int
    buffer,       \* buffer[t]: the local char*, an address or NULL
    heap,         \* heap[a]: the byte at address a
    owner,        \* owner[a]: the thread whose live block holds a, or 0
    logged,       \* logged[t]: what callback_log received in t's current call
    passed,       \* passed[t]: the cursors vsnprintf and vsprintf received
    count,        \* count[t]: how often the call ran malloc, free, vsprintf
    crashed       \* the process died

vars == <<variant, pc, ctx, message, va, args, buffer_size, buffer, heap,
          owner, logged, passed, count, crashed>>

ZeroCount == [malloc |-> 0, free |-> 0, vsprintf |-> 0]

NonePassed == [vsnprintf |-> ClosedCursor, vsprintf |-> ClosedCursor]

Init ==
    /\ variant \in Variants
    /\ pc = [t \in Threads |-> "idle"]
    /\ ctx = [t \in Threads |-> NoContext]
    /\ message = [t \in Threads |-> <<>>]
    /\ va = [t \in Threads |-> <<>>]
    /\ args = [t \in Threads |-> ClosedCursor]
    /\ buffer_size = [t \in Threads |-> 0]
    /\ buffer = [t \in Threads |-> NULL]
    /\ heap = [a \in Addrs |-> Uninit]
    /\ owner = [a \in Addrs |-> 0]
    /\ logged = [t \in Threads |-> <<>>]
    /\ passed = [t \in Threads |-> NonePassed]
    /\ count = [t \in Threads |-> ZeroCount]
    /\ crashed = FALSE

\* ------------------------------------------------------------------- helpers
Goto(t, label) == pc' = [pc EXCEPT ![t] = label]

Counted(t, op) == count' = [count EXCEPT ![t][op] = @ + 1]

\* The addresses of the live block of thread t.
Block(t) == { a \in Addrs : owner[a] = t }

\* size bytes from base are inside the heap and free.
FreeRun(base, size) ==
    /\ base + size - 1 <= HeapSize
    /\ \A a \in base..(base + size - 1) : owner[a] = 0

\* The heap after bytes are stored from base on. A byte stored into a live
\* block, the writer's or another thread's, is kept; the contents of memory
\* no block holds are indeterminate and stay Uninit, and bytes past the last
\* address of the heap land outside the modelled memory.
WriteBytes(h, base, bytes) ==
    [a \in Addrs |->
        IF a >= base /\ a < base + Len(bytes) /\ owner[a] # 0
        THEN bytes[a - base + 1]
        ELSE h[a]]

\* The C string that starts at base.
RECURSIVE CStr(_, _)
CStr(h, base) ==
    IF base > HeapSize THEN <<>>
    ELSE IF h[base] = NUL THEN <<>>
    ELSE <<h[base]>> \o CStr(h, base + 1)

\* The size test written >= 0.
SizeOk_Mut(n) == n >= 0

\* if(buffer_size > 0)
SizeOk(n) == n > 0

\* The null test left out.
BufferOk_Mut(b) == TRUE

\* if(buffer)
BufferOk(b) == b # NULL

\* The cursor around a formatting pass: FmiSys opens it anew before the pass
\* and closes it after; Src hands over args as it is.
BeforePass(c) == IF variant = FmiSys THEN va_start(c) ELSE c

AfterPass(c) == IF variant = FmiSys THEN va_end(c) ELSE c

\* The va_end(args) before the closing brace of Src, reached on every path.
Epilogue(c) == IF variant = Src THEN va_end(c) ELSE c

\* callback_log called with instanceName and category swapped.
SinkArgs_Mut(t) ==
    [componentEnvironment |-> ctx[t].componentEnvironment,
     instanceName |-> ctx[t].category,
     status |-> ctx[t].status,
     category |-> ctx[t].instanceName,
     message |-> CStr(heap, buffer[t])]

\* The arguments of the call of callback_log.
SinkArgs(t) ==
    [componentEnvironment |-> ctx[t].componentEnvironment,
     instanceName |-> ctx[t].instanceName,
     status |-> ctx[t].status,
     category |-> ctx[t].category,
     message |-> CStr(heap, buffer[t])]

\* ------------------------------------------------------------------- actions
\* The simulation code calls callback_logger_handler.
Call(t) ==
    /\ ~crashed
    /\ pc[t] = "idle"
    /\ \E inv \in Invocations :
        /\ ctx' = [ctx EXCEPT ![t] = inv.ctx]
        /\ message' = [message EXCEPT ![t] = inv.message]
        /\ va' = [va EXCEPT ![t] = inv.va]
    /\ Goto(t, "measuring")
    /\ UNCHANGED <<variant, args, buffer_size, buffer, heap, owner, logged,
                   passed, count, crashed>>

\* va_start(args, message);
\* int buffer_size = vsnprintf(NULL, 0, message, args);
\* va_end(args);                                         (FmiSys)
\* if(buffer_size > 0) { ... }  and, when it is not, the rest of the function.
Measure(t) ==
    /\ ~crashed
    /\ pc[t] = "measuring"
    /\ LET c1 == va_start(args[t])
           c2 == AfterPass(Traversed(c1, message[t]))
       IN  /\ passed' = [passed EXCEPT ![t].vsnprintf = c1]
           /\ \E n \in MeasureResults(message[t], va[t], c1) :
                /\ buffer_size' = [buffer_size EXCEPT ![t] = n]
                /\ IF SizeOk(n)
                   THEN /\ args' = [args EXCEPT ![t] = c2]
                        /\ Goto(t, "allocating")
                   ELSE /\ args' = [args EXCEPT ![t] = Epilogue(c2)]
                        /\ Goto(t, "returning")
    /\ UNCHANGED <<variant, ctx, message, va, buffer, heap, owner, logged,
                   count, crashed>>

\* An allocation that goes on to callback_log without the render pass.
Allocate_Mut(t) ==
    /\ ~crashed
    /\ pc[t] = "allocating"
    /\ \/ /\ buffer' = [buffer EXCEPT ![t] = NULL]
          /\ args' = [args EXCEPT ![t] = Epilogue(@)]
          /\ Goto(t, "returning")
          /\ UNCHANGED <<heap, owner>>
       \/ \E base \in Addrs :
            /\ FreeRun(base, buffer_size[t] + 1)
            /\ buffer' = [buffer EXCEPT ![t] = base]
            /\ owner' = [a \in Addrs |->
                  IF a >= base /\ a <= base + buffer_size[t] THEN t ELSE owner[a]]
            /\ heap' = [a \in Addrs |->
                  IF a >= base /\ a <= base + buffer_size[t] THEN Uninit ELSE heap[a]]
            /\ Goto(t, "forwarding")
            /\ UNCHANGED args
    /\ Counted(t, "malloc")
    /\ UNCHANGED <<variant, ctx, message, va, buffer_size, logged, passed,
                   crashed>>

\* char* buffer = malloc(buffer_size+1): a free run of that size, its
\* contents indeterminate, or NULL;
\* if(buffer) { ... }  and, when it is null, the rest of the function.
Allocate(t) ==
    /\ ~crashed
    /\ pc[t] = "allocating"
    /\ \E b \in {NULL} \cup { base \in Addrs : FreeRun(base, buffer_size[t] + 1) } :
        /\ buffer' = [buffer EXCEPT ![t] = b]
        /\ owner' = [a \in Addrs |->
              IF b # NULL /\ a >= b /\ a <= b + buffer_size[t] THEN t ELSE owner[a]]
        /\ heap' = [a \in Addrs |->
              IF b # NULL /\ a >= b /\ a <= b + buffer_size[t] THEN Uninit ELSE heap[a]]
        /\ IF BufferOk(b)
           THEN /\ Goto(t, "rendering")
                /\ UNCHANGED args
           ELSE /\ args' = [args EXCEPT ![t] = Epilogue(@)]
                /\ Goto(t, "returning")
    /\ Counted(t, "malloc")
    /\ UNCHANGED <<variant, ctx, message, va, buffer_size, logged, passed,
                   crashed>>

\* va_start(args, message);                              (FmiSys)
\* vsprintf(buffer, message, args): stores the expansion and a terminator
\* from buffer on, however long it is;
\* va_end(args);                                         (FmiSys)
Render(t) ==
    /\ ~crashed
    /\ pc[t] = "rendering"
    /\ LET c1 == BeforePass(args[t])
           c2 == AfterPass(Traversed(c1, message[t]))
       IN  \E o \in PassOutcomes(message[t], va[t], c1) :
            IF o.crash \/ buffer[t] = NULL
            THEN /\ crashed' = TRUE
                 /\ UNCHANGED <<pc, args, heap, passed, count>>
            ELSE LET bytes == o.text \o <<NUL>>
                 IN  /\ heap' = WriteBytes(heap, buffer[t], bytes)
                     /\ passed' = [passed EXCEPT ![t].vsprintf = c1]
                     /\ args' = [args EXCEPT ![t] = c2]
                     /\ Counted(t, "vsprintf")
                     /\ Goto(t, "forwarding")
                     /\ UNCHANGED crashed
    /\ UNCHANGED <<variant, ctx, message, va, buffer_size, buffer, owner, logged>>

\* callback_log(componentEnvironment, instanceName, status, category, buffer)
\* is entered: the sink receives its arguments.
SinkCall(t) ==
    /\ ~crashed
    /\ pc[t] = "forwarding"
    /\ logged' = [logged EXCEPT ![t] = Append(@, SinkArgs(t))]
    /\ Goto(t, "in_sink")
    /\ UNCHANGED <<variant, ctx, message, va, args, buffer_size, buffer, heap,
                   owner, passed, count, crashed>>

\* callback_log returns.
SinkReturn(t) ==
    /\ ~crashed
    /\ pc[t] = "in_sink"
    /\ Goto(t, "releasing")
    /\ UNCHANGED <<variant, ctx, message, va, args, buffer_size, buffer, heap,
                   owner, logged, passed, count, crashed>>

\* The free(buffer) left out.
Free_Mut(t) ==
    /\ ~crashed
    /\ pc[t] = "releasing"
    /\ args' = [args EXCEPT ![t] = Epilogue(@)]
    /\ Goto(t, "returning")
    /\ UNCHANGED <<variant, ctx, message, va, buffer_size, buffer, heap, owner,
                   logged, passed, count, crashed>>

\* free(buffer);  and the rest of the function.
Free(t) ==
    /\ ~crashed
    /\ pc[t] = "releasing"
    /\ owner' = [a \in Addrs |-> IF owner[a] = t THEN 0 ELSE owner[a]]
    /\ heap' = [a \in Addrs |-> IF owner[a] = t THEN Uninit ELSE heap[a]]
    /\ Counted(t, "free")
    /\ args' = [args EXCEPT ![t] = Epilogue(@)]
    /\ Goto(t, "returning")
    /\ UNCHANGED <<variant, ctx, message, va, buffer_size, buffer, logged,
                   passed, crashed>>

\* The function returns; its parameters and locals are gone.
Return(t) ==
    /\ ~crashed
    /\ pc[t] = "returning"
    /\ ctx' = [ctx EXCEPT ![t] = NoContext]
    /\ message' = [message EXCEPT ![t] = <<>>]
    /\ va' = [va EXCEPT ![t] = <<>>]
    /\ args' = [args EXCEPT ![t] = ClosedCursor]
    /\ buffer_size' = [buffer_size EXCEPT ![t] = 0]
    /\ buffer' = [buffer EXCEPT ![t] = NULL]
    /\ logged' = [logged EXCEPT ![t] = <<>>]
    /\ passed' = [passed EXCEPT ![t] = NonePassed]
    /\ count' = [count EXCEPT ![t] = ZeroCount]
    /\ Goto(t, "idle")
    /\ UNCHANGED <<variant, heap, owner, crashed>>

Next ==
    \E t \in Threads :
        \/ Call(t)
        \/ Measure(t)
        \/ Allocate(t)
        \/ Render(t)
        \/ SinkCall(t)
        \/ SinkReturn(t)
        \/ Free(t)
        \/ Return(t)

Spec == Init /\ [][Next]_vars

\* ------------------------------------------------------------------- claims
\* The bytes thread t's block holds when its render pass stored text there
\* and nothing else wrote into the block.
OwnBytes(t, text) ==
    [a \in Block(t) |->
        IF a - buffer[t] + 1 <= Len(text) THEN text[a - buffer[t] + 1]
        ELSE IF a - buffer[t] = Len(text) THEN NUL
        ELSE Uninit]

\* The block of thread t is rendered and not yet released.
Rendered(t) == pc[t] \in {"forwarding", "in_sink", "releasing"}

\* C1: a call whose format and arguments expand to n > 0 characters and
\* whose allocation succeeded has, once the sink was entered, called
\* callback_log exactly once with a message of exactly n characters equal to
\* the expansion of the format with the original arguments.
C1_SinkGetsExactExpansion ==
    \A t \in Threads :
        ( /\ pc[t] \in {"in_sink", "releasing", "returning"}
          /\ Len(Expand(message[t], va[t])) > 0
          /\ buffer[t] # NULL )
        => /\ Len(logged[t]) = 1
           /\ logged[t][1].message = Expand(message[t], va[t])
           /\ Len(logged[t][1].message) = Len(Expand(message[t], va[t]))

\* C2: the cursor the render pass (vsprintf) receives was initialized anew
\* after the measurement pass and is not one a pass has already consumed.
C2_RenderCursorIsFresh ==
    \A t \in Threads :
        count[t].vsprintf > 0
        => /\ passed[t].vsprintf.pos = "start"
           /\ passed[t].vsprintf.starts > passed[t].vsnprintf.starts

\* C3: when the measurement pass returned 0 or a negative count, the call
\* goes straight to its return: no allocation, no render pass, no call of
\* callback_log, nothing released.
C3_NotPositiveCountDoesNothing ==
    \A t \in Threads :
        (pc[t] \notin {"idle", "measuring"} /\ buffer_size[t] <= 0)
        => /\ pc[t] = "returning"
           /\ count[t] = ZeroCount
           /\ buffer[t] = NULL
           /\ Block(t) = {}
           /\ logged[t] = <<>>

C3_Witness ==
    \E t, u \in Threads :
        /\ pc[t] = "returning" /\ buffer_size[t] = 0
        /\ pc[u] = "returning" /\ buffer_size[u] < 0

\* C4: when malloc returned NULL, the call goes straight to its return:
\* callback_log is not called, vsprintf does not run on the null buffer and
\* nothing is released.
C4_AllocationFailureIsSilent ==
    \A t \in Threads :
        (count[t].malloc > 0 /\ buffer[t] = NULL)
        => /\ pc[t] = "returning"
           /\ count[t].vsprintf = 0
           /\ count[t].free = 0
           /\ Block(t) = {}
           /\ logged[t] = <<>>

C4_Witness ==
    \E t \in Threads :
        /\ pc[t] = "returning"
        /\ buffer_size[t] > 0
        /\ count[t].malloc = 1
        /\ buffer[t] = NULL

\* C5: a call allocates at most once; it releases only a buffer it
\* allocated and at most once; a live block is the one buffer points to; and
\* at the return no block of the call is live and a successful allocation
\* has been released exactly once.
C5_AllocationReleasedOnce ==
    \A t \in Threads :
        /\ count[t].malloc \in {0, 1}
        /\ count[t].free <= (IF count[t].malloc = 1 /\ buffer[t] # NULL THEN 1 ELSE 0)
        /\ Block(t) # {} => (buffer[t] # NULL /\ count[t].free = 0)
        /\ pc[t] \in {"returning", "idle"}
           => /\ Block(t) = {}
              /\ buffer[t] # NULL => count[t].free = 1

C5_Witness ==
    \E t \in Threads :
        /\ pc[t] = "returning"
        /\ count[t].malloc = 1
        /\ count[t].free = 1
        /\ buffer[t] # NULL

\* C6: the block of a call has exactly buffer_size + 1 bytes, and after the
\* render pass the string in it, terminator included, lies inside the block:
\* at most buffer_size characters before the terminator.
C6_BlockHoldsTheRendering ==
    \A t \in Threads :
        Block(t) # {}
        => /\ Block(t) = buffer[t]..(buffer[t] + buffer_size[t])
           /\ Rendered(t) => Len(CStr(heap, buffer[t])) <= buffer_size[t]

\* C7: every call of callback_log passes the environment, instance name,
\* status and category the handler received for that call.
C7_ContextForwardedUnchanged ==
    \A t \in Threads :
        \A i \in 1..Len(logged[t]) :
            /\ logged[t][i].componentEnvironment = ctx[t].componentEnvironment
            /\ logged[t][i].instanceName = ctx[t].instanceName
            /\ logged[t][i].status = ctx[t].status
            /\ logged[t][i].category = ctx[t].category
            /\ \E inv \in Invocations : inv.ctx = ctx[t]

C7_Witness ==
    \E t, u \in Threads :
        /\ Len(logged[t]) = 1 /\ ctx[t] = Context1
        /\ Len(logged[u]) = 1 /\ ctx[u] = Context2

\* C8: under every interleaving the rendered block of a call holds what its
\* own render pass stored there, as when the call runs alone: no other call
\* has written into it.
C8_CallsDoNotInterfere ==
    \A t \in Threads :
        (Rendered(t) /\ Block(t) # {})
        => \E o \in PassOutcomes(message[t], va[t], passed[t].vsprintf) :
              /\ ~o.crash
              /\ \A a \in Block(t) : heap[a] = OwnBytes(t, o.text)[a]

\* C9: while callback_log runs, the buffer is allocated, the render pass
\* has completed and the buffer is not released; the sink is entered only
\* after the render pass, the render pass runs only after a successful
\* allocation for a positive count, and the buffer is released only after
\* the sink has returned.
C9_MeasureAllocateRenderForwardRelease ==
    \A t \in Threads :
        /\ pc[t] = "in_sink"
           => /\ count[t].malloc = 1
              /\ count[t].vsprintf = 1
              /\ count[t].free = 0
              /\ buffer[t] # NULL
              /\ Block(t) = buffer[t]..(buffer[t] + buffer_size[t])
        /\ logged[t] # <<>> => count[t].vsprintf = 1
        /\ count[t].vsprintf > 0
           => (count[t].malloc = 1 /\ buffer[t] # NULL /\ buffer_size[t] > 0)
        /\ count[t].free > 0 => (Len(logged[t]) = 1 /\ pc[t] = "returning")

C9_Witness ==
    \A t \in Threads : pc[t] = "in_sink"

\* C10: every va_start is matched by one va_end before the return: the
\* cursor is never started while open nor ended while closed, each
\* formatting pass received an open cursor, and at the return the cursor is
\* closed with as many va_end as va_start.
C10_CursorStartEndPaired ==
    \A t \in Threads :
        /\ args[t].starts = args[t].ends + (IF args[t].open THEN 1 ELSE 0)
        /\ pc[t] \notin {"idle", "measuring"}
           => /\ passed[t].vsnprintf.open
              /\ passed[t].vsnprintf.starts = passed[t].vsnprintf.ends + 1
        /\ count[t].vsprintf > 0
           => /\ passed[t].vsprintf.open
              /\ passed[t].vsprintf.starts = passed[t].vsprintf.ends + 1
        /\ pc[t] = "returning"
           => /\ ~args[t].open
              /\ args[t].starts >= 1
              /\ args[t].ends = args[t].starts

C10_Witness ==
    \E t, u \in Threads :
        /\ pc[t] = "returning" /\ count[t].free = 1
        /\ pc[u] = "returning" /\ count[u].malloc = 0

====
